---------------------------- MODULE Spec2Model ----------------------------
(***************************************************************************)
(* Model of setup.py: the interactive environment setup script.  Text is    *)
(* modelled by strings: file contents, export lines, prompts' answers and   *)
(* messages are the strings the script builds, and `x in content` is the    *)
(* substring test of Python.                                                *)
(***************************************************************************)
EXTENDS Integers, Sequences, FiniteSets, TLC

VARIABLES
    pc,             \* position of main(): the blocking call it is at, or how it ended
    run,            \* number of the current run of the script
    system_name,    \* platform.system() of the machine
    shell_env,      \* os.environ.get("SHELL", "")
    files,          \* content of each shell profile file
    file_exists,    \* whether each shell profile file exists
    init_files,     \* content of each profile file before the first run
    win_env,        \* variables stored by setx (Windows)
    typed_key,      \* the line typed at the last credential prompt of this run
    api_key,        \* main's local api_key
    typed_primary,  \* the line typed at the prompt for the primary model
    typed_small,    \* the line typed at the prompt for the small/fast model
    vertex_config,  \* main's local vertex_config
    primary_model,  \* prompt_vertex_configuration's local primary_model
    small_model,    \* prompt_vertex_configuration's local small_model
    failures,       \* consecutive failed verifications of this run
    verifications,  \* verify_api_key invocations in the current loop iteration
    requests,       \* HTTP requests issued by the last verify_api_key invocation
    verified_key,   \* the key verify_api_key returned True for in this run
    calls,          \* set_env_var_forever invocations of this run
    added,          \* the (file, line) pairs a writer call has reported as added
    faults,         \* writer calls the environment has made fail so far
    asked,          \* questions put to the user in this run
    shown,          \* default model identifiers printed to the user in this run
    reload_file,    \* profile file named by the final instructions
    probe           \* the last direct call of a function: its arguments and result

vars == <<pc, run, system_name, shell_env, files, file_exists, init_files,
          win_env, typed_key, api_key, typed_primary, typed_small,
          vertex_config, primary_model, small_model,
          failures, verifications, requests, verified_key, calls, added,
          faults,
          asked, shown, reload_file, probe>>

None == "<None>"

-----------------------------------------------------------------------------
(* Bounds *)

MaxAttempts == 3    \* iterations of the credential retry loop in one run
MaxRuns == 2        \* runs of the script on the same machine
MaxFaults == 1      \* writer calls the environment makes fail
MaxCalls == 3       \* direct calls of the persistence writer

-----------------------------------------------------------------------------
(* Python string primitives *)

\* content.startswith(line) in place of line in content
Contains_StartsWith(content, line) ==
    Len(line) <= Len(content) /\ SubSeq(content, 1, Len(line)) = line

\* Python: line in content
Contains(content, line) ==
    \E i \in 0..(Len(content) - Len(line)) : SubSeq(content, i + 1, i + Len(line)) = line

\* number of (possibly overlapping) occurrences of line in content
CountOcc(content, line) ==
    Cardinality({i \in 0..(Len(content) - Len(line)) :
                    SubSeq(content, i + 1, i + Len(line)) = line})

\* number of lines of content (separated by "\n") that are equal to line
CountLines(content, line) ==
    Cardinality({i \in 0..(Len(content) - Len(line)) :
                    /\ SubSeq(content, i + 1, i + Len(line)) = line
                    /\ (i = 0 \/ SubSeq(content, i, i) = "\n")
                    /\ (i + Len(line) = Len(content)
                        \/ SubSeq(content, i + Len(line) + 1, i + Len(line) + 1) = "\n")})

IsPrefix(p, s) == Len(p) <= Len(s) /\ SubSeq(s, 1, Len(p)) = p

\* the text s continues p with
Suffix(p, s) == SubSeq(s, Len(p) + 1, Len(s))

Whitespace == {" ", "\t", "\n", "\r"}

\* Python: s.strip()
Strip(s) ==
    LET kept == {i \in 1..Len(s) : SubSeq(s, i, i) \notin Whitespace}
    IN  IF kept = {} THEN ""
        ELSE SubSeq(s, CHOOSE i \in kept : \A j \in kept : i <= j,
                       CHOOSE i \in kept : \A j \in kept : i >= j)

UpperAlpha == "ABCDEFGHIJKLMNOPQRSTUVWXYZ"
LowerAlpha == "abcdefghijklmnopqrstuvwxyz"

\* the lower-case letter of each upper-case letter
LowerTable ==
    [c \in {SubSeq(UpperAlpha, i, i) : i \in 1..26} |->
        LET i == CHOOSE j \in 1..26 : SubSeq(UpperAlpha, j, j) = c
        IN  SubSeq(LowerAlpha, i, i)]

LowerChar(c) == IF c \in DOMAIN LowerTable THEN LowerTable[c] ELSE c

\* Python: s.lower()
Lower(s) ==
    LET low[i \in 0..Len(s)] ==
            IF i = 0 THEN "" ELSE low[i - 1] \o LowerChar(SubSeq(s, i, i))
    IN  low[Len(s)]

-----------------------------------------------------------------------------
(* Platform detector *)

Home == "~"

RcFiles == {Home \o "/.zprofile", Home \o "/.bash_profile",
            Home \o "/.zshrc", Home \o "/.bashrc"}

Raise == "<OSError>"

\* get_shell_rc_file that tests SHELL as it is, without lower()
get_shell_rc_file_CaseSensitive(sysname, shellenv) ==
    LET system == Lower(sysname)
        shell == shellenv
    IN  IF system = "darwin"
        THEN IF Contains(shell, "zsh")
             THEN Home \o "/.zprofile"
             ELSE Home \o "/.bash_profile"
        ELSE IF system = "linux"
        THEN IF Contains(shell, "zsh")
             THEN Home \o "/.zshrc"
             ELSE Home \o "/.bashrc"
        ELSE IF system = "windows"
        THEN None
        ELSE Raise

\* get_shell_rc_file(): the path, None on Windows, Raise on any other system
get_shell_rc_file(sysname, shellenv) ==
    LET system == Lower(sysname)
        shell == Lower(shellenv)
    IN  IF system = "darwin"
        THEN IF Contains(shell, "zsh")
             THEN Home \o "/.zprofile"
             ELSE Home \o "/.bash_profile"
        ELSE IF system = "linux"
        THEN IF Contains(shell, "zsh")
             THEN Home \o "/.zshrc"
             ELSE Home \o "/.bashrc"
        ELSE IF system = "windows"
        THEN None
        ELSE Raise

-----------------------------------------------------------------------------
(* Persistence writer *)

HeaderComment == "# Claude Code Configuration"

\* what line 71 writes
HeaderBlock == "\n" \o HeaderComment \o "\n"

\* where the environment makes the file operations of append_to_file fail
IOOutcomes == {"ok", "touch_fails", "read_fails", "open_append_fails",
               "write_fails", "write_fails_after_header"}

\* append_to_file without the test that the line is absent
append_to_file_NoCheck(content, exists, line, io) ==
    IF io = "touch_fails"
    THEN [ret |-> FALSE, content |-> content, exists |-> exists, raised |-> TRUE]
    ELSE IF io = "read_fails"
    THEN [ret |-> FALSE, content |-> content, exists |-> TRUE, raised |-> TRUE]
    ELSE LET has_header == Contains(content, HeaderComment)
             header == IF ~has_header THEN HeaderBlock ELSE ""
         IN  IF io = "open_append_fails" \/ io = "write_fails"
             THEN [ret |-> FALSE, content |-> content, exists |-> TRUE, raised |-> TRUE]
             ELSE IF io = "write_fails_after_header"
             THEN [ret |-> FALSE, content |-> content \o header, exists |-> TRUE,
                   raised |-> TRUE]
             ELSE [ret |-> TRUE, content |-> content \o header \o line \o "\n",
                   exists |-> TRUE, raised |-> FALSE]

\* append_to_file that writes the header before every line it appends
append_to_file_AlwaysHeader(content, exists, line, io) ==
    IF io = "touch_fails"
    THEN [ret |-> FALSE, content |-> content, exists |-> exists, raised |-> TRUE]
    ELSE IF io = "read_fails"
    THEN [ret |-> FALSE, content |-> content, exists |-> TRUE, raised |-> TRUE]
    ELSE IF ~Contains(content, line)
    THEN LET header == HeaderBlock
         IN  IF io = "open_append_fails" \/ io = "write_fails"
             THEN [ret |-> FALSE, content |-> content, exists |-> TRUE, raised |-> TRUE]
             ELSE IF io = "write_fails_after_header"
             THEN [ret |-> FALSE, content |-> content \o header, exists |-> TRUE,
                   raised |-> TRUE]
             ELSE [ret |-> TRUE, content |-> content \o header \o line \o "\n",
                   exists |-> TRUE, raised |-> FALSE]
    ELSE [ret |-> FALSE, content |-> content, exists |-> TRUE, raised |-> FALSE]

\* append_to_file(file_path, line) on a file with the given content, when the
\* environment behaves as io says: the returned flag, the new content, whether
\* the file exists afterwards, whether the except clause was entered
append_to_file(content, exists, line, io) ==
    IF io = "touch_fails"
    THEN [ret |-> FALSE, content |-> content, exists |-> exists, raised |-> TRUE]
    ELSE IF io = "read_fails"
    THEN [ret |-> FALSE, content |-> content, exists |-> TRUE, raised |-> TRUE]
    ELSE IF ~Contains(content, line)
    THEN LET has_header == Contains(content, HeaderComment)
             header == IF ~has_header THEN HeaderBlock ELSE ""
         IN  IF io = "open_append_fails" \/ io = "write_fails"
             THEN [ret |-> FALSE, content |-> content, exists |-> TRUE, raised |-> TRUE]
             ELSE IF io = "write_fails_after_header"
             THEN [ret |-> FALSE, content |-> content \o header, exists |-> TRUE,
                   raised |-> TRUE]
             ELSE [ret |-> TRUE, content |-> content \o header \o line \o "\n",
                   exists |-> TRUE, raised |-> FALSE]
    ELSE [ret |-> FALSE, content |-> content, exists |-> TRUE, raised |-> FALSE]

SetxOutcomes == {"ok", "nonzero_exit", "not_found"}

VarNames == {"UNBOUND_API_KEY", "ANTHROPIC_BASE_URL", "ANTHROPIC_MODEL",
             "ANTHROPIC_SMALL_FAST_MODEL"}

\* set_env_var_on_windows(var_name, value): subprocess.run(["setx", ...], check=True)
set_env_var_on_windows(wenv, var_name, value, outcome) ==
    IF outcome = "ok"
    THEN [success |-> TRUE, win_env |-> [wenv EXCEPT ![var_name] = value],
          report |-> "setx"]
    ELSE IF outcome = "nonzero_exit"
    THEN [success |-> FALSE, win_env |-> wenv, report |-> "Failed to set"]
    ELSE [success |-> FALSE, win_env |-> wenv, report |-> "'setx' command not found"]

\* the line set_env_var_on_unix builds
export_line(var_name, value) == "export " \o var_name \o "=\"" \o value \o "\""

\* set_env_var_on_unix(var_name, value)
set_env_var_on_unix(sysname, shellenv, fs, ex, var_name, value, outcome) ==
    LET rc_file == get_shell_rc_file(sysname, shellenv)
    IN  IF rc_file = Raise      \* the OSError of line 45 leaves the function
        THEN [success |-> FALSE, files |-> fs, file_exists |-> ex,
              report |-> Raise, rc_file |-> rc_file, raised |-> FALSE]
        ELSE IF rc_file = None
        THEN [success |-> FALSE, files |-> fs, file_exists |-> ex,
              report |-> "none", rc_file |-> rc_file, raised |-> FALSE]
        ELSE LET r == append_to_file(fs[rc_file], ex[rc_file],
                                     export_line(var_name, value), outcome)
                 was_added == r.ret
             IN  [success |-> TRUE,
                  files |-> [fs EXCEPT ![rc_file] = r.content],
                  file_exists |-> [ex EXCEPT ![rc_file] = r.exists],
                  report |-> IF was_added THEN "Added" ELSE "already configured",
                  rc_file |-> rc_file,
                  raised |-> r.raised]

\* set_env_var_forever that takes every system but Windows for a POSIX system
\* and leaves the rejection of the others to get_shell_rc_file
set_env_var_forever_NoSystemCheck(sysname, shellenv, fs, ex, wenv, var_name, value, outcome) ==
    LET system == Lower(sysname)
    IN  IF system = "windows"
        THEN LET w == set_env_var_on_windows(wenv, var_name, value, outcome)
             IN  [success |-> w.success,
                  message |-> IF w.success
                              THEN "Environment variable set for new terminals"
                              ELSE "Failed to set environment variable",
                  report |-> w.report, rc_file |-> None, io_raised |-> FALSE,
                  files |-> fs, file_exists |-> ex, win_env |-> w.win_env]
        ELSE LET u == set_env_var_on_unix(sysname, shellenv, fs, ex,
                                          var_name, value, outcome)
                 shell_name == IF Contains(shellenv, "zsh") THEN "zsh" ELSE "bash"
             IN  [success |-> u.success,
                  message |-> IF u.report = Raise
                              THEN Raise
                              ELSE IF u.success
                              THEN "Run 'source ~/." \o shell_name
                                       \o "rc' or restart terminal"
                              ELSE "Failed to set environment variable",
                  report |-> u.report, rc_file |-> u.rc_file, io_raised |-> u.raised,
                  files |-> u.files, file_exists |-> u.file_exists, win_env |-> wenv]

\* set_env_var_forever(var_name, value): (success, message) and the effect on
\* the profile files and on the Windows variable store; the message is Raise
\* when an exception leaves the function instead
set_env_var_forever(sysname, shellenv, fs, ex, wenv, var_name, value, outcome) ==
    LET system == Lower(sysname)
    IN  IF system = "windows"
        THEN LET w == set_env_var_on_windows(wenv, var_name, value, outcome)
             IN  [success |-> w.success,
                  message |-> IF w.success
                              THEN "Environment variable set for new terminals"
                              ELSE "Failed to set environment variable",
                  report |-> w.report, rc_file |-> None, io_raised |-> FALSE,
                  files |-> fs, file_exists |-> ex, win_env |-> w.win_env]
        ELSE IF system \in {"darwin", "linux"}
        THEN LET u == set_env_var_on_unix(sysname, shellenv, fs, ex,
                                          var_name, value, outcome)
                 shell_name == IF Contains(shellenv, "zsh") THEN "zsh" ELSE "bash"
             IN  [success |-> u.success,
                  message |-> IF u.report = Raise
                              THEN Raise
                              ELSE IF u.success
                              THEN "Run 'source ~/." \o shell_name
                                       \o "rc' or restart terminal"
                              ELSE "Failed to set environment variable",
                  report |-> u.report, rc_file |-> u.rc_file, io_raised |-> u.raised,
                  files |-> u.files, file_exists |-> u.file_exists, win_env |-> wenv]
        ELSE [success |-> FALSE, message |-> "Unsupported OS: " \o system,
              report |-> "none", rc_file |-> None, io_raised |-> FALSE,
              files |-> fs, file_exists |-> ex, win_env |-> wenv]

\* what the environment can do to one call of the writer on this system
Outcomes(sysname) ==
    IF Lower(sysname) = "windows" THEN SetxOutcomes
    ELSE IF Lower(sysname) \in {"darwin", "linux"} THEN IOOutcomes
    ELSE {"ok"}

-----------------------------------------------------------------------------
(* Prompts *)

\* prompt_for_var(var_name, description, required) on the line the user typed
prompt_for_var(typed, required) ==
    LET value == Strip(typed)
    IN  IF required /\ value = "" THEN None
        ELSE IF value # "" THEN value ELSE None

\* prompt_yes_no(question, default) on the line the user typed
prompt_yes_no(typed, default) ==
    LET response == Lower(Strip(typed))
    IN  IF response = "" THEN default
        ELSE response \in {"y", "yes"}

-----------------------------------------------------------------------------
(* Credential verifier *)

\* decoded JSON bodies: type, truth value size (length, number of keys, number),
\* and for an object the "data" member
Json(t, size, has_data, data_t, data_size) ==
    [t |-> t, size |-> size, has_data |-> has_data,
     data_t |-> data_t, data_size |-> data_size]

JsonBodies ==
    { Json("null", 0, FALSE, "none", 0),      \* null
      Json("bool", 0, FALSE, "none", 0),      \* false
      Json("bool", 1, FALSE, "none", 0),      \* true
      Json("number", 0, FALSE, "none", 0),    \* 0
      Json("number", 7, FALSE, "none", 0),    \* 7
      Json("string", 0, FALSE, "none", 0),    \* ""
      Json("string", 2, FALSE, "none", 0),    \* "ok"
      Json("list", 0, FALSE, "none", 0),      \* []
      Json("list", 1, FALSE, "none", 0),      \* [{"id": "model-1"}]
      Json("dict", 0, FALSE, "none", 0),      \* {}
      Json("dict", 1, FALSE, "none", 0),      \* {"object": "list"}
      Json("dict", 1, TRUE, "list", 0),       \* {"data": []}
      Json("dict", 1, TRUE, "list", 1),       \* {"data": [{"id": "model-1"}]}
      Json("dict", 1, TRUE, "string", 2),     \* {"data": "ok"}
      Json("dict", 1, TRUE, "null", 0) }      \* {"data": null}

Undecodable == Json("undecodable", 0, FALSE, "none", 0)

\* what json.loads(e.read().decode()) gives in the HTTPError handler, line 256
ErrorBodies ==
    { "undecodable",            \* not JSON, or not UTF-8
      "null",                   \* null
      "list",                   \* ["error"]
      "dict_without_error",     \* {"detail": "no"}
      "error_is_null",          \* {"error": null}
      "error_is_string",        \* {"error": "the message is here"}
      "error_without_message",  \* {"error": {"code": 401}}
      "error_with_message" }    \* {"error": {"message": "bad key"}}

\* what urlopen does: returns a response, raises HTTPError, raises another
\* error; body is what response.read() decodes to (line 235), error is what
\* e.read() decodes to (line 256)
Responses ==
    [kind : {"response"}, status : {200}, body : JsonBodies \cup {Undecodable},
     error : {"none"}]
    \cup [kind : {"response"}, status : {204}, body : {Undecodable}, error : {"none"}]
    \cup [kind : {"HTTPError"}, status : {401, 500}, body : {Undecodable},
          error : ErrorBodies]
    \cup [kind : {"URLError", "timeout"}, status : {0}, body : {Undecodable},
          error : {"none"}]

\* Python truth value of a decoded body
Truthy(data) == data.t # "null" /\ data.size # 0

\* lines 235-248: the decision on a 200 response
body_is_valid(data) ==
    IF data.t = "undecodable" THEN FALSE        \* json.loads raises, line 262
    ELSE IF Truthy(data) /\ data.t = "dict" /\ data.has_data
    THEN data.data_t = "list" /\ data.data_size > 0
    ELSE IF Truthy(data) /\ data.t = "list" /\ data.size > 0
    THEN TRUE
    ELSE IF Truthy(data) /\ data.t = "dict"
    THEN TRUE
    ELSE FALSE

\* lines 256-258: what the statements inside the inner try do with the error
\* body: print the message, print nothing, or raise
error_message(error) ==
    IF error = "undecodable" THEN Raise                 \* json.loads
    ELSE IF error = "null" THEN Raise                   \* "error" in None
    ELSE IF error \in {"list", "dict_without_error"} THEN "nothing"
    ELSE IF error = "error_is_null" THEN Raise          \* "message" in None
    ELSE IF error = "error_is_string" THEN Raise        \* "text"["message"]
    ELSE IF error = "error_without_message" THEN "nothing"
    ELSE "printed"

\* lines 255-260: the inner try statement; its bare except clause passes
\* over whatever the statements inside raise
read_error_body(error) ==
    LET inner == error_message(error)
    IN  IF inner = Raise THEN "passed" ELSE inner

\* verify_api_key without the test for an empty key
verify_api_key_NoEmptyCheck(key, resp) ==
    IF resp.kind = "response"
    THEN IF resp.status = 200
         THEN [result |-> body_is_valid(resp.body), requests |-> 1, raised |-> FALSE]
         ELSE [result |-> FALSE, requests |-> 1, raised |-> FALSE]
    ELSE IF resp.kind = "HTTPError"
    THEN [result |-> FALSE, requests |-> 1,
          raised |-> read_error_body(resp.error) = Raise]
    ELSE [result |-> FALSE, requests |-> 1, raised |-> FALSE]

\* verify_api_key without the try around the reading of the error body
verify_api_key_NoInnerTry(key, resp) ==
    IF key = None \/ Len(key) = 0
    THEN [result |-> FALSE, requests |-> 0, raised |-> FALSE]
    ELSE IF resp.kind = "response"
    THEN IF resp.status = 200
         THEN [result |-> body_is_valid(resp.body), requests |-> 1, raised |-> FALSE]
         ELSE [result |-> FALSE, requests |-> 1, raised |-> FALSE]
    ELSE IF resp.kind = "HTTPError"
    THEN [result |-> FALSE, requests |-> 1,
          raised |-> error_message(resp.error) = Raise]
    ELSE [result |-> FALSE, requests |-> 1, raised |-> FALSE]

\* verify_api_key(api_key) when urlopen answers resp: the value returned,
\* the urlopen calls made, whether an exception leaves the function
verify_api_key(key, resp) ==
    IF key = None \/ Len(key) = 0
    THEN [result |-> FALSE, requests |-> 0, raised |-> FALSE]
    ELSE IF resp.kind = "response"
    THEN IF resp.status = 200
         THEN [result |-> body_is_valid(resp.body), requests |-> 1, raised |-> FALSE]
         ELSE [result |-> FALSE, requests |-> 1, raised |-> FALSE]
    ELSE IF resp.kind = "HTTPError"
    THEN [result |-> FALSE, requests |-> 1,
          raised |-> read_error_body(resp.error) = Raise]
    ELSE [result |-> FALSE, requests |-> 1, raised |-> FALSE]

-----------------------------------------------------------------------------
(* Routing configuration *)

ShownPrimary == "claude-sonnet-4-5@20250929"
ShownSmall == "claude-3-5-haiku@20241022"
DefaultPrimary == "anthropic.claude-sonnet-4-5@20250929"
DefaultSmall == "anthropic.claude-3-5-haiku@20241022"
BaseUrl_WithPath == "https://api.getunbound.ai/v1"
BaseUrl == "https://api.getunbound.ai"

NoConfig == [useVertex |-> FALSE, model |-> None, smallModel |-> None]

\* dict.get(key, default) on vertex_config
ConfigGet(value, default) == IF value = None THEN default ELSE value

-----------------------------------------------------------------------------
(* Inputs and initial states *)

Systems == {"Darwin", "Linux", "Windows", "FreeBSD"}
Shells == {"/bin/bash", "/bin/zsh", "/bin/ZSH"}

\* machines: platform.system() and SHELL ("" when it is not set)
Environments ==
    ({"Darwin", "Linux"} \X Shells) \cup {<<"Windows", "">>, <<"FreeBSD", "/bin/sh">>}

\* lines the user types at the prompts
KeyInputs == {"", " ", "k1", " k2 "}
YesNoInputs == {"", "y", "YES ", "n"}
CustomInputs == {"", " m1 ", "m2"}

\* profile files before the first run: missing or empty, an ordinary profile
\* that mentions a key in a comment, the profile an earlier run left behind
InitialContents ==
    { "",
      "export PATH=\"$HOME/bin:$PATH\"\n# export UNBOUND_API_KEY=\"k2\"",
      "\n" \o HeaderComment \o "\nexport UNBOUND_API_KEY=\"k1\"\n" }

\* no function has been called directly
NoProbe == [fn |-> "none"]

\* a machine out of envs, and the locals of a run that has not started
InitOn(envs) ==
    /\ run = 1
    /\ probe = NoProbe
    /\ \E env \in envs : system_name = env[1] /\ shell_env = env[2]
    /\ \E c \in InitialContents, e \in BOOLEAN :
          /\ (c # "" => e)
          /\ (Lower(system_name) \notin {"darwin", "linux"} => c = "" /\ ~e)
          /\ files = [f \in RcFiles |-> c]
          /\ file_exists = [f \in RcFiles |-> e]
    /\ init_files = files
    /\ win_env = [v \in VarNames |-> None]
    /\ typed_key = None
    /\ api_key = None
    /\ typed_primary = None
    /\ typed_small = None
    /\ vertex_config = NoConfig
    /\ primary_model = None
    /\ small_model = None
    /\ failures = 0
    /\ verifications = 0
    /\ requests = 0
    /\ verified_key = None
    /\ calls = <<>>
    /\ added = {}
    /\ faults = 0
    /\ asked = {}
    /\ shown = {}
    /\ reload_file = None

InitEnv == InitOn(Environments)

Init ==
    /\ pc = "CollectCredential"
    /\ InitEnv

-----------------------------------------------------------------------------
(* main() *)

machine == <<system_name, shell_env, init_files>>
store == <<files, file_exists, win_env, calls, added, faults>>
verifier == <<failures, verifications, requests, verified_key>>
routing == <<vertex_config, primary_model, small_model, shown>>
locals == <<typed_key, api_key, typed_primary, typed_small>>

\* PromptCredential that asks again when the entry is empty
PromptCredential_Reprompt(typed) ==
    /\ pc = "CollectCredential"
    /\ asked' = asked \cup {"Unbound API Key"}
    /\ typed_key' = typed
    /\ api_key' = prompt_for_var(typed, TRUE)
    /\ verifications' = 0
    /\ pc' = IF api_key' = None \/ api_key' = "" THEN "CollectCredential"
             ELSE "VerifyCredential"
    /\ UNCHANGED <<run, probe, machine, store, routing, failures, requests,
                   verified_key, reload_file, typed_primary, typed_small>>

\* lines 320-329: one prompt of the retry loop
PromptCredential(typed) ==
    /\ pc = "CollectCredential"
    /\ asked' = asked \cup {"Unbound API Key"}
    /\ typed_key' = typed
    /\ api_key' = prompt_for_var(typed, TRUE)
    /\ verifications' = 0
    /\ pc' = IF api_key' = None \/ api_key' = "" THEN "ExitNoKey"
             ELSE "VerifyCredential"
    /\ UNCHANGED <<run, probe, machine, store, routing, failures, requests,
                   verified_key, reload_file, typed_primary, typed_small>>

\* VerifyCredential that leaves the loop whatever verify_api_key returns
VerifyCredential_IgnoreResult(resp) ==
    /\ pc = "VerifyCredential"
    /\ LET v == verify_api_key(api_key, resp)
       IN  /\ verifications' = verifications + 1
           /\ requests' = v.requests
           /\ failures' = IF v.result THEN 0 ELSE failures + 1
           /\ verified_key' = IF v.result THEN api_key ELSE verified_key
           /\ pc' = "PersistCredential"
    /\ UNCHANGED <<run, probe, machine, store, routing, locals, asked, reload_file>>

\* lines 332-336: the call of verify_api_key and the branch on its result
VerifyCredential(resp) ==
    /\ pc = "VerifyCredential"
    /\ LET v == verify_api_key(api_key, resp)
       IN  /\ verifications' = verifications + 1
           /\ requests' = v.requests
           /\ failures' = IF v.result THEN 0 ELSE failures + 1
           /\ verified_key' = IF v.result THEN api_key ELSE verified_key
           /\ pc' = IF v.result THEN "PersistCredential" ELSE "AskRetry"
    /\ UNCHANGED <<run, probe, machine, store, routing, locals, asked, reload_file>>

\* AskRetry that leaves the loop (break) instead of returning on "no"
AskRetry_BreakOnDecline(typed) ==
    /\ pc = "AskRetry"
    /\ LET retry == prompt_yes_no(typed, TRUE)
       IN  /\ retry => failures < MaxAttempts
           /\ pc' = IF retry THEN "CollectCredential" ELSE "PersistCredential"
    /\ asked' = asked \cup {"Would you like to try again?"}
    /\ UNCHANGED <<run, probe, machine, store, routing, verifier, locals, reload_file>>

\* lines 337-339: the retry question
AskRetry(typed) ==
    /\ pc = "AskRetry"
    /\ LET retry == prompt_yes_no(typed, TRUE)
       IN  /\ retry => failures < MaxAttempts
           /\ pc' = IF retry THEN "CollectCredential" ELSE "ExitDeclined"
    /\ asked' = asked \cup {"Would you like to try again?"}
    /\ UNCHANGED <<run, probe, machine, store, routing, verifier, locals, reload_file>>

\* one call of set_env_var_forever with what it leaves behind, logged after
\* the calls in log
PersistAfter(log, var_name, value, outcome) ==
    /\ outcome # "ok" => faults < MaxFaults
    /\ \E w \in {set_env_var_forever(system_name, shell_env, files, file_exists,
                                      win_env, var_name, value, outcome)} :
           /\ files' = w.files
           /\ file_exists' = w.file_exists
           /\ win_env' = w.win_env
           /\ faults' = IF outcome # "ok" THEN faults + 1 ELSE faults
           /\ added' = IF w.report = "Added"
                       THEN added \cup {<<w.rc_file, export_line(var_name, value)>>}
                       ELSE added
           /\ calls' = Append(log,
                  [var_name |-> var_name, value |-> value, outcome |-> outcome,
                   success |-> w.success, message |-> w.message,
                   report |-> w.report, rc_file |-> w.rc_file,
                   io_raised |-> w.io_raised,
                   before |-> IF w.rc_file \in RcFiles THEN files[w.rc_file] ELSE "",
                   after |-> IF w.rc_file \in RcFiles THEN w.files[w.rc_file] ELSE ""])

\* one call of set_env_var_forever by main
Persist(var_name, value, outcome) == PersistAfter(calls, var_name, value, outcome)

\* lines 387-397: the profile the final instructions tell the user to source
final_instructions(sysname, shellenv) ==
    LET system == Lower(sysname)
    IN  IF system \in {"darwin", "linux"}
        THEN LET shell_name == IF Contains(shellenv, "zsh") THEN "zsh" ELSE "bash"
                 rc_file == IF shell_name = "zsh" THEN ".zshrc" ELSE ".bashrc"
             IN  "~/" \o rc_file
        ELSE None

\* an exception left writer call c: main is left too, and the wrapper of
\* lines 412-414 ends the run
Propagates(c) == c.message = Raise

\* lines 346-351: the primary credential write
PersistCredential(outcome) ==
    /\ pc = "PersistCredential"
    /\ Persist("UNBOUND_API_KEY", api_key, outcome)
    /\ pc' = IF Propagates(calls'[Len(calls')]) THEN "ErrorExit"
             ELSE IF calls'[Len(calls')].success THEN "ConfigureRouting"
             ELSE "ExitPersistFailed"
    /\ UNCHANGED <<run, probe, machine, routing, verifier, locals, asked, reload_file>>

\* lines 274-287: the routing question of prompt_vertex_configuration
AskUseVertex(typed) ==
    /\ pc = "ConfigureRouting"
    /\ asked' = asked \cup {"Do you want to use Vertex AI models?"}
    /\ LET use_vertex == prompt_yes_no(typed, FALSE)
       IN  IF ~use_vertex
           THEN /\ vertex_config' = NoConfig
                /\ pc' = "PersistBaseUrl"
                /\ UNCHANGED shown
           ELSE /\ shown' = shown \cup {ShownPrimary, ShownSmall}
                /\ pc' = "AskUseDefaults"
                /\ UNCHANGED vertex_config
    /\ UNCHANGED <<run, probe, machine, store, verifier, locals, primary_model,
                   small_model, reload_file>>

\* lines 289-294 (and 305-309 when the defaults are accepted)
AskUseDefaults(typed) ==
    /\ pc = "AskUseDefaults"
    /\ asked' = asked \cup {"Would you like to proceed with the default models?"}
    /\ primary_model' = DefaultPrimary
    /\ small_model' = DefaultSmall
    /\ LET use_defaults == prompt_yes_no(typed, TRUE)
       IN  IF use_defaults
           THEN /\ vertex_config' = [useVertex |-> TRUE, model |-> primary_model',
                                     smallModel |-> small_model']
                /\ pc' = "PersistModel"
           ELSE /\ pc' = "AskCustomPrimary"
                /\ UNCHANGED vertex_config
    /\ UNCHANGED <<run, probe, machine, store, verifier, locals, shown, reload_file>>

\* AskCustomPrimary that drops the entry and keeps the default
AskCustomPrimary_IgnoreEntry(typed) ==
    /\ pc = "AskCustomPrimary"
    /\ asked' = asked \cup {"Primary model"}
    /\ shown' = shown \cup {primary_model}
    /\ typed_primary' = typed
    /\ primary_model' = primary_model
    /\ pc' = "AskCustomSmall"
    /\ UNCHANGED <<run, probe, machine, store, verifier, typed_key, api_key,
                   typed_small, vertex_config, small_model, reload_file>>

\* lines 297-299
AskCustomPrimary(typed) ==
    /\ pc = "AskCustomPrimary"
    /\ asked' = asked \cup {"Primary model"}
    /\ typed_primary' = typed
    /\ shown' = shown \cup {primary_model}
    /\ LET custom_primary == Strip(typed)
       IN  primary_model' = IF custom_primary # "" THEN custom_primary
                            ELSE primary_model
    /\ pc' = "AskCustomSmall"
    /\ UNCHANGED <<run, probe, machine, store, verifier, typed_key, api_key,
                   typed_small, vertex_config, small_model, reload_file>>

\* lines 301-309
AskCustomSmall(typed) ==
    /\ pc = "AskCustomSmall"
    /\ asked' = asked \cup {"Small/fast model"}
    /\ typed_small' = typed
    /\ shown' = shown \cup {small_model}
    /\ LET custom_small == Strip(typed)
       IN  small_model' = IF custom_small # "" THEN custom_small ELSE small_model
    /\ vertex_config' = [useVertex |-> TRUE, model |-> primary_model,
                         smallModel |-> small_model']
    /\ pc' = "PersistModel"
    /\ UNCHANGED <<run, probe, machine, store, verifier, typed_key, api_key,
                   typed_primary, primary_model, reload_file>>

\* PersistModel that ends the run when the write fails, as the write of the
\* primary credential does
PersistModel_StopOnFailure(outcome) ==
    /\ pc = "PersistModel"
    /\ vertex_config.useVertex
    /\ Persist("ANTHROPIC_MODEL", ConfigGet(vertex_config.model, DefaultPrimary),
               outcome)
    /\ pc' = IF Propagates(calls'[Len(calls')]) THEN "ErrorExit"
             ELSE IF calls'[Len(calls')].success THEN "PersistSmallModel"
             ELSE "ExitPersistFailed"
    /\ UNCHANGED <<run, probe, machine, routing, verifier, locals, asked, reload_file>>

\* lines 361-371, first item of env_vars
PersistModel(outcome) ==
    /\ pc = "PersistModel"
    /\ vertex_config.useVertex
    /\ Persist("ANTHROPIC_MODEL", ConfigGet(vertex_config.model, DefaultPrimary),
               outcome)
    /\ pc' = IF Propagates(calls'[Len(calls')]) THEN "ErrorExit"
             ELSE "PersistSmallModel"
    /\ UNCHANGED <<run, probe, machine, routing, verifier, locals, asked, reload_file>>

\* PersistSmallModel that passes the name of the other branch's variable
PersistSmallModel_WrongName(outcome) ==
    /\ pc = "PersistSmallModel"
    /\ Persist("ANTHROPIC_BASE_URL",
               ConfigGet(vertex_config.smallModel, DefaultSmall), outcome)
    /\ IF Propagates(calls'[Len(calls')])
       THEN pc' = "ErrorExit" /\ UNCHANGED reload_file
       ELSE /\ reload_file' = final_instructions(system_name, shell_env)
            /\ pc' = "Done"
    /\ UNCHANGED <<run, probe, machine, routing, verifier, locals, asked>>

\* lines 361-371, second item of env_vars, and the final instructions
PersistSmallModel(outcome) ==
    /\ pc = "PersistSmallModel"
    /\ Persist("ANTHROPIC_SMALL_FAST_MODEL",
               ConfigGet(vertex_config.smallModel, DefaultSmall), outcome)
    /\ IF Propagates(calls'[Len(calls')])
       THEN pc' = "ErrorExit" /\ UNCHANGED reload_file
       ELSE /\ reload_file' = final_instructions(system_name, shell_env)
            /\ pc' = "Done"
    /\ UNCHANGED <<run, probe, machine, routing, verifier, locals, asked>>

\* lines 372-380, and the final instructions
PersistBaseUrl(outcome) ==
    /\ pc = "PersistBaseUrl"
    /\ ~vertex_config.useVertex
    /\ Persist("ANTHROPIC_BASE_URL", BaseUrl, outcome)
    /\ IF Propagates(calls'[Len(calls')])
       THEN pc' = "ErrorExit" /\ UNCHANGED reload_file
       ELSE /\ reload_file' = final_instructions(system_name, shell_env)
            /\ pc' = "Done"
    /\ UNCHANGED <<run, probe, machine, routing, verifier, locals, asked>>

PromptStates == {"CollectCredential", "AskRetry", "ConfigureRouting",
                 "AskUseDefaults", "AskCustomPrimary", "AskCustomSmall"}

\* lines 408-414: input() raises KeyboardInterrupt (Ctrl-C) or EOFError (end of
\* input) at a prompt and the top-level wrapper ends the run
Abandon(how) ==
    /\ pc \in PromptStates
    /\ pc' = IF how = "KeyboardInterrupt" THEN "Cancelled" ELSE "ErrorExit"
    /\ UNCHANGED <<run, probe, machine, store, routing, verifier, locals, asked,
                   reload_file>>

Terminal == {"ExitNoKey", "ExitDeclined", "ExitPersistFailed", "Done",
             "Cancelled", "ErrorExit"}

\* the user starts the script again on the same machine
NewRun ==
    /\ pc \in Terminal
    /\ run < MaxRuns
    /\ run' = run + 1
    /\ pc' = "CollectCredential"
    /\ typed_key' = None
    /\ api_key' = None
    /\ typed_primary' = None
    /\ typed_small' = None
    /\ vertex_config' = NoConfig
    /\ primary_model' = None
    /\ small_model' = None
    /\ failures' = 0
    /\ verifications' = 0
    /\ requests' = 0
    /\ verified_key' = None
    /\ calls' = <<>>
    /\ asked' = {}
    /\ shown' = {}
    /\ reload_file' = None
    /\ UNCHANGED <<probe, machine, files, file_exists, win_env, added, faults>>

Next ==
    \/ \E typed \in KeyInputs : PromptCredential(typed)
    \/ \E resp \in Responses : VerifyCredential(resp)
    \/ \E typed \in YesNoInputs : AskRetry(typed)
    \/ \E outcome \in Outcomes(system_name) : PersistCredential(outcome)
    \/ \E typed \in YesNoInputs : AskUseVertex(typed)
    \/ \E typed \in YesNoInputs : AskUseDefaults(typed)
    \/ \E typed \in CustomInputs : AskCustomPrimary(typed)
    \/ \E typed \in CustomInputs : AskCustomSmall(typed)
    \/ \E outcome \in Outcomes(system_name) : PersistModel(outcome)
    \/ \E outcome \in Outcomes(system_name) : PersistSmallModel(outcome)
    \/ \E outcome \in Outcomes(system_name) : PersistBaseUrl(outcome)
    \/ \E how \in {"KeyboardInterrupt", "EOFError"} : Abandon(how)

\* one run of the script
Spec == Init /\ [][Next]_vars

\* lines 357-380: main goes on from the routing write it is at; the routing
\* writes are straight-line code between the last prompt and the end of main
RoutingWrites ==
    /\ pc \in {"PersistModel", "PersistSmallModel", "PersistBaseUrl"}
    /\ pc' \in {"PersistSmallModel"} \cup Terminal

\* one run of the script in which main is not stopped between its prompts
SpecLive == Init /\ [][Next]_vars /\ WF_pc(RoutingWrites)

\* runs of the script one after the other, the first on a machine whose
\* profile files are missing
InitRuns ==
    /\ Init
    /\ \A f \in RcFiles : files[f] = "" /\ ~file_exists[f]

\* what the user types and what the server answers in these runs
RunKeyInputs == {"", "k1"}
RunYesNoInputs == {"y", "n"}
RunCustomInputs == {"", "m2"}
RunResponses ==
    {resp \in Responses :
        \/ resp.status = 200 /\ resp.body = Json("dict", 1, TRUE, "list", 1)
        \/ resp.status = 401 /\ resp.error = "error_with_message"}

NextRuns ==
    \/ \E typed \in RunKeyInputs : PromptCredential(typed)
    \/ \E resp \in RunResponses : VerifyCredential(resp)
    \/ \E typed \in RunYesNoInputs : AskRetry(typed)
    \/ \E outcome \in Outcomes(system_name) : PersistCredential(outcome)
    \/ \E typed \in RunYesNoInputs : AskUseVertex(typed)
    \/ \E typed \in RunYesNoInputs : AskUseDefaults(typed)
    \/ \E typed \in RunCustomInputs : AskCustomPrimary(typed)
    \/ \E typed \in RunCustomInputs : AskCustomSmall(typed)
    \/ \E outcome \in Outcomes(system_name) : PersistModel(outcome)
    \/ \E outcome \in Outcomes(system_name) : PersistSmallModel(outcome)
    \/ \E outcome \in Outcomes(system_name) : PersistBaseUrl(outcome)
    \/ \E how \in {"KeyboardInterrupt", "EOFError"} : Abandon(how)
    \/ NewRun

SpecRuns == InitRuns /\ [][NextRuns]_vars

-----------------------------------------------------------------------------
(* The persistence writer called directly, as its tests and other callers do *)

\* the (var_name, value) pairs the callers pass
WriterArgs ==
    { <<"UNBOUND_API_KEY", "k1">>, <<"UNBOUND_API_KEY", "k2">>,
      <<"ANTHROPIC_MODEL", "m1">>,
      <<"ANTHROPIC_MODEL", "m1 # export UNBOUND_API_KEY=\"k1\"">> }

InitWriter ==
    /\ pc = "Writer"
    /\ InitEnv

\* one caller's call set_env_var_forever(var_name, value); calls holds the
\* call of the latest caller, run counts the callers
WriterCall(var_name, value, outcome) ==
    /\ pc = "Writer"
    /\ run <= MaxCalls
    /\ run' = run + 1
    /\ PersistAfter(<<>>, var_name, value, outcome)
    /\ UNCHANGED <<pc, probe, machine, routing, verifier, locals, asked, reload_file>>

NextWriter ==
    \E args \in WriterArgs, outcome \in Outcomes(system_name) :
        WriterCall(args[1], args[2], outcome)

SpecWriter == InitWriter /\ [][NextWriter]_vars

-----------------------------------------------------------------------------
(* The pure functions called directly, on every input *)

\* platform.system() on the machines the script may be started on
ProbeSystems == Systems \cup {"Java", ""}

\* SHELL: the shells of the runs, not set, a shell that is neither bash nor zsh
ProbeShells == Shells \cup {"", "/usr/bin/fish"}

ProbeEnvironments == ProbeSystems \X ProbeShells

\* the api_key argument of verify_api_key
ProbeKeys == {None, "", "k1"}

InitProbes ==
    /\ pc = "Probe"
    /\ InitOn(ProbeEnvironments)

\* what a direct call of a function leaves alone
unprobed == <<pc, run, machine, store, routing, verifier, locals, asked,
              reload_file>>

\* verify_api_key(key) when urlopen answers resp
VerifyCall(key, resp) ==
    /\ pc = "Probe"
    /\ LET v == verify_api_key(key, resp)
       IN  probe' = [fn |-> "verify_api_key", key |-> key, resp |-> resp,
                     result |-> v.result, requests |-> v.requests,
                     raised |-> v.raised]
    /\ UNCHANGED unprobed

\* get_shell_rc_file() on this machine
DetectCall ==
    /\ pc = "Probe"
    /\ probe' = [fn |-> "get_shell_rc_file",
                 result |-> get_shell_rc_file(system_name, shell_env)]
    /\ UNCHANGED unprobed

NextProbes ==
    \/ \E key \in ProbeKeys, resp \in Responses : VerifyCall(key, resp)
    \/ DetectCall

SpecProbes == InitProbes /\ [][NextProbes]_vars

TypeOK ==
    /\ pc \in PromptStates \cup Terminal \cup
              {"VerifyCredential", "PersistCredential", "PersistModel",
               "PersistSmallModel", "PersistBaseUrl", "Writer", "Probe"}
    /\ probe.fn \in {"none", "verify_api_key", "get_shell_rc_file"}
    /\ run \in 1..(IF pc = "Writer" THEN MaxCalls + 1 ELSE MaxRuns)
    /\ failures \in 0..MaxAttempts
    /\ Len(calls) <= (IF pc = "Writer" THEN 1 ELSE 3)
    /\ faults \in 0..MaxFaults
    /\ verifications \in 0..1
    /\ requests \in 0..1
    /\ \A f \in RcFiles : IsPrefix(init_files[f], files[f])

-----------------------------------------------------------------------------
(* Properties *)

\* no writer call was made in this run and nothing is stored
NothingPersisted ==
    /\ calls = <<>>
    /\ files = init_files
    /\ \A v \in VarNames : win_env[v] = None

\* the environment made this writer call fail
WriteFailed(c) == c.io_raised \/ c.outcome \in {"nonzero_exit", "not_found"}

\* C1: the persistence writer is invoked only after verify_api_key has returned
\* True, the value of the first write (UNBOUND_API_KEY) is the credential typed
\* in the iteration whose verification succeeded (without the surrounding
\* blanks prompt_for_var strips), and every iteration calls verify_api_key
\* exactly once on the credential it read.
C1_PersistOnlyVerifiedKey ==
    /\ verifications <= 1
    /\ (pc \in {"AskRetry", "PersistCredential"} => verifications = 1)
    /\ (calls # <<>> =>
          /\ verifications = 1
          /\ failures = 0
          /\ verified_key # None
          /\ verified_key = Strip(typed_key)
          /\ calls[1].var_name = "UNBOUND_API_KEY"
          /\ calls[1].value = verified_key)

C1_Witness ==
    /\ pc = "ConfigureRouting"
    /\ typed_key = " k2 "
    /\ Len(calls) = 1
    /\ calls[1].value = "k2"
    /\ calls[1].report = "Added"

\* C2: after n >= 1 consecutive failed verifications and the answer "no" to the
\* retry question the run has ended, no writer call was made and nothing is
\* stored; as long as the last verification has failed nothing is written.
C2_DeclineWritesNothing ==
    /\ (pc = "ExitDeclined" => failures >= 1 /\ NothingPersisted /\ reload_file = None)
    /\ (failures >= 1 => NothingPersisted)

C2_Witness ==
    /\ pc = "ExitDeclined"
    /\ failures = 3
    /\ NothingPersisted

\* C3 as stated: the credential prompt is repeated until a non-empty string is
\* entered or the user declines a retry, so a run that ends before any
\* credential was verified has ended by a decline or by abandoning the prompt,
\* and then nothing is persisted.
C3_PromptsUntilNonEmpty ==
    (pc \in Terminal /\ verified_key = None) =>
        /\ pc \in {"ExitDeclined", "Cancelled", "ErrorExit"}
        /\ NothingPersisted

\* C3 amended: every credential prompt that is answered is followed by the
\* verification of the entry when the entry is non-empty (after trimming) and
\* by the early exit of the run when it is empty; the prompt is repeated only
\* after a failed verification and the answer "yes"; leaving by an empty
\* entry, by a decline or by abandoning the prompt ends the run with nothing
\* persisted.
C3_EmptyEntryExits ==
    [][ /\ (pc = "CollectCredential" /\ pc' \notin {"Cancelled", "ErrorExit"}) =>
              /\ pc' = IF Strip(typed_key') = "" THEN "ExitNoKey"
                       ELSE "VerifyCredential"
              /\ (pc' = "VerifyCredential" => api_key' = Strip(typed_key'))
        /\ (pc = "AskRetry" =>
              pc' \in {"CollectCredential", "ExitDeclined", "Cancelled", "ErrorExit"})
        /\ (pc \in {"CollectCredential", "AskRetry"} /\ pc' \in Terminal =>
              /\ pc' \in {"ExitNoKey", "ExitDeclined", "Cancelled", "ErrorExit"}
              /\ NothingPersisted')
      ]_vars

C3_Witness ==
    /\ pc = "ExitNoKey"
    /\ typed_key = " "
    /\ api_key = None
    /\ NothingPersisted

\* C4: when the write of UNBOUND_API_KEY fails (I/O failure on the profile
\* file, setx failing or missing) the run ends there: the routing question is
\* not asked, no routing variable is written, Done is not reached.
C4_PrimaryFailureIsTerminal ==
    (calls # <<>> /\ WriteFailed(calls[1])) =>
        /\ pc = "ExitPersistFailed"
        /\ Len(calls) = 1
        /\ "Do you want to use Vertex AI models?" \notin asked
        /\ reload_file = None

\* C5: a writer call whose file operations fail reports failure: its success
\* flag is false and it reports neither "Added" nor "already configured".
C5_IOFailureReportsFailure ==
    \A i \in 1..Len(calls) :
        calls[i].io_raised =>
            /\ ~calls[i].success
            /\ calls[i].report \notin {"Added", "already configured"}

\* the text the program has appended to profile file f
Appended(f) == Suffix(init_files[f], files[f])

\* number of lines of content that start with prefix
CountLineStarts(content, prefix) ==
    Cardinality({i \in 0..(Len(content) - Len(prefix)) :
                    /\ SubSeq(content, i + 1, i + Len(prefix)) = prefix
                    /\ (i = 0 \/ SubSeq(content, i, i) = "\n")})

\* C6: writer calls whose file operations do not fail are idempotent: a call
\* with a line the file does not contain reports "Added" and leaves the line
\* exactly once in the file, a call with a line the file contains reports
\* "already configured" and leaves the file unchanged, and every line that was
\* added once occurs exactly once in the file after any number of later calls.
C6_AppendIsIdempotent ==
    /\ \A p \in added : CountLines(files[p[1]], p[2]) = 1
    /\ \A i \in 1..Len(calls) :
          LET c == calls[i]
              line == export_line(c.var_name, c.value)
          IN  (c.rc_file \in RcFiles /\ ~c.io_raised) =>
                 IF Contains(c.before, line)
                 THEN c.report = "already configured" /\ c.after = c.before
                 ELSE /\ c.report = "Added"
                      /\ CountLines(c.after, line) = 1
                      /\ <<c.rc_file, line>> \in added

C6_Witness ==
    /\ pc = "Writer"
    /\ Len(calls) = 1
    /\ calls[1].report = "already configured"
    /\ ~calls[1].io_raised
    /\ calls[1].after = calls[1].before
    /\ <<calls[1].rc_file, export_line(calls[1].var_name, calls[1].value)>> \in added

\* C7: in the text the writer has appended to a profile file the header
\* comment occurs at most once, it is the first thing appended when it occurs,
\* and it is not appended to a file that had the header before.
C7_HeaderAtMostOnce ==
    \A f \in RcFiles :
        /\ IsPrefix(init_files[f], files[f])
        /\ CountOcc(Appended(f), HeaderBlock) <= 1
        /\ (CountOcc(Appended(f), HeaderBlock) = 1 => IsPrefix(HeaderBlock, Appended(f)))
        /\ (Contains(init_files[f], HeaderComment) =>
               CountOcc(Appended(f), HeaderBlock) = 0)
        /\ (Appended(f) # "" /\ ~Contains(init_files[f], HeaderComment) =>
               IsPrefix(HeaderBlock, Appended(f)))

C7_Witness ==
    \E f \in RcFiles :
        /\ Cardinality({p \in added : p[1] = f}) >= 2
        /\ CountOcc(Appended(f), HeaderBlock) = 1
        /\ IsPrefix(HeaderBlock, Appended(f))

\* C8 as stated: whatever the values of the calls, the text the program has
\* appended to a profile file has at most one "export NAME=" line per
\* variable name.
C8_OneExportLinePerVariable ==
    \A f \in RcFiles, v \in VarNames :
        CountLineStarts(Appended(f), "export " \o v \o "=") <= 1

\* C8 amended: the writer never appends an export line (name and value) a
\* second time: the export lines of a variable in the appended text are the
\* distinct lines added for it, one of each, so a call with another value for
\* a configured variable appends one more export line for that variable.
C8_NoDuplicateExportLine ==
    \A f \in RcFiles, v \in VarNames :
        LET lines == {p \in added : p[1] = f /\ IsPrefix("export " \o v \o "=", p[2])}
        IN  /\ CountLineStarts(Appended(f), "export " \o v \o "=") = Cardinality(lines)
            /\ \A p \in lines : CountLines(Appended(f), p[2]) = 1

C8_Witness ==
    \E f \in RcFiles :
        /\ CountLineStarts(Appended(f), "export UNBOUND_API_KEY=") = 2
        /\ CountLines(Appended(f), "export UNBOUND_API_KEY=\"k1\"") = 1
        /\ CountLines(Appended(f), "export UNBOUND_API_KEY=\"k2\"") = 1
        /\ Len(calls) = 1
        /\ calls[1].report = "already configured"
        /\ ~calls[1].io_raised

\* the variable of writer call c is stored where the platform keeps it
Stored(c) ==
    IF c.rc_file \in RcFiles
    THEN Contains(files[c.rc_file], export_line(c.var_name, c.value))
    ELSE win_env[c.var_name] = c.value

\* C9: a run that verified a credential and in which alternate routing was
\* declined makes exactly two writer calls, UNBOUND_API_KEY with the entered
\* credential and ANTHROPIC_BASE_URL with https://api.getunbound.ai; each call
\* the environment does not make fail leaves its variable stored, and neither
\* ANTHROPIC_MODEL nor ANTHROPIC_SMALL_FAST_MODEL is written.
C9_DirectRoutingWrites ==
    (pc = "Done" /\ ~vertex_config.useVertex) =>
        /\ Strip(typed_key) # ""
        /\ Len(calls) = 2
        /\ calls[1].var_name = "UNBOUND_API_KEY"
        /\ calls[1].value = Strip(typed_key)
        /\ calls[2].var_name = "ANTHROPIC_BASE_URL"
        /\ calls[2].value = "https://api.getunbound.ai"
        /\ \A i \in 1..2 : ~WriteFailed(calls[i]) => Stored(calls[i])
        /\ \A f \in RcFiles : ~Contains(Appended(f), "ANTHROPIC_MODEL")
                              /\ ~Contains(Appended(f), "ANTHROPIC_SMALL_FAST_MODEL")
        /\ win_env["ANTHROPIC_MODEL"] = None
        /\ win_env["ANTHROPIC_SMALL_FAST_MODEL"] = None

C9_Witness ==
    /\ pc = "Done"
    /\ ~vertex_config.useVertex
    /\ typed_key = " k2 "
    /\ Len(calls) = 2
    /\ calls[1].report = "Added"
    /\ calls[2].report = "Added"
    /\ Stored(calls[1])
    /\ Stored(calls[2])

\* C10: a run in which alternate routing and the default models were accepted
\* writes ANTHROPIC_MODEL and ANTHROPIC_SMALL_FAST_MODEL with the default
\* identifiers that were printed to the user, and does not write
\* ANTHROPIC_BASE_URL.
C10_DefaultsAsShown ==
    (pc = "Done" /\ vertex_config.useVertex /\ "Primary model" \notin asked) =>
        /\ Len(calls) = 3
        /\ calls[2].var_name = "ANTHROPIC_MODEL"
        /\ calls[2].value \in shown
        /\ calls[3].var_name = "ANTHROPIC_SMALL_FAST_MODEL"
        /\ calls[3].value \in shown
        /\ \A i \in 1..3 : calls[i].var_name # "ANTHROPIC_BASE_URL"


\* C11 as stated: for a 200 response verify_api_key returns True exactly when
\* the decoded body is an object whose "data" member is a non-empty list, or
\* a non-empty list, or a non-empty object, whatever the shape of the body.
C11_ValidBodyShapes ==
    (/\ probe.fn = "verify_api_key"
     /\ probe.key = "k1"
     /\ probe.resp.kind = "response"
     /\ probe.resp.status = 200) =>
        LET data == probe.resp.body
        IN  probe.result =
               \/ (data.t = "dict" /\ data.has_data
                     /\ data.data_t = "list" /\ data.data_size > 0)
               \/ (data.t = "list" /\ data.size > 0)
               \/ (data.t = "dict" /\ data.size > 0)

\* C12: verify_api_key called with an empty credential (None or "") returns
\* False, has made no urlopen call and raises nothing, whatever the server
\* would have answered.
C12_EmptyKeyNoRequest ==
    (probe.fn = "verify_api_key" /\ probe.key \in {None, ""}) =>
        /\ probe.result = FALSE
        /\ probe.requests = 0
        /\ ~probe.raised

C12_Witness ==
    /\ probe.fn = "verify_api_key"
    /\ probe.key = ""
    /\ probe.resp.kind = "response"
    /\ probe.resp.status = 200
    /\ body_is_valid(probe.resp.body)
    /\ probe.result = FALSE
    /\ probe.requests = 0


\* the SHELL values that contain "zsh" in some letter case
ShellsWithZsh == {"/bin/zsh", "/bin/ZSH"}

\* C13: get_shell_rc_file returns what the policy table gives for the OS
\* identifier and SHELL of the machine, whatever the profile files hold:
\* ~/.zprofile or ~/.bash_profile on Darwin and ~/.zshrc or ~/.bashrc on Linux
\* (the first when SHELL contains "zsh"), None on Windows, and it raises
\* OSError for every other OS identifier.
C13_PolicyTable ==
    probe.fn = "get_shell_rc_file" =>
        probe.result =
            IF system_name = "Darwin"
            THEN (IF shell_env \in ShellsWithZsh THEN "~/.zprofile" ELSE "~/.bash_profile")
            ELSE IF system_name = "Linux"
            THEN (IF shell_env \in ShellsWithZsh THEN "~/.zshrc" ELSE "~/.bashrc")
            ELSE IF system_name = "Windows"
            THEN None
            ELSE Raise

C13_Witness ==
    /\ probe.fn = "get_shell_rc_file"
    /\ system_name = "Darwin"
    /\ shell_env = "/bin/ZSH"
    /\ probe.result = "~/.zprofile"
    /\ files["~/.zprofile"] # ""


\* C14 as stated: on an unsupported OS identifier nothing is persisted, and a
\* run that has verified a credential and has ended has ended by the OSError
\* that get_shell_rc_file raises.
C14_DetectorErrorEndsRun ==
    system_name \notin {"Darwin", "Linux", "Windows"} =>
        /\ files = init_files
        /\ \A v \in VarNames : win_env[v] = None
        /\ (pc \in Terminal /\ verified_key # None =>
              /\ pc = "ErrorExit"
              /\ calls # <<>>
              /\ calls[Len(calls)].rc_file = Raise)

\* C14 amended: on an unsupported OS identifier nothing is persisted, the run
\* goes no further than the write of UNBOUND_API_KEY, and that write is
\* refused by set_env_var_forever itself: it returns (False, "Unsupported OS:
\* <system>") without calling get_shell_rc_file, whose OSError is not raised,
\* and main ends the run there by its early return.
C14_UnsupportedEndsAtFirstWrite ==
    system_name \notin {"Darwin", "Linux", "Windows"} =>
        /\ files = init_files
        /\ \A v \in VarNames : win_env[v] = None
        /\ pc \in {"CollectCredential", "VerifyCredential", "AskRetry",
                   "PersistCredential", "ExitNoKey", "ExitDeclined",
                   "Cancelled", "ErrorExit", "ExitPersistFailed"}
        /\ (pc = "ExitPersistFailed" <=> calls # <<>>)
        /\ (calls # <<>> =>
              /\ Len(calls) = 1
              /\ verified_key # None
              /\ calls[1].var_name = "UNBOUND_API_KEY"
              /\ ~calls[1].success
              /\ (system_name = "FreeBSD" =>
                     calls[1].message = "Unsupported OS: freebsd")
              /\ calls[1].rc_file = None
              /\ ~Propagates(calls[1])
              /\ reload_file = None)

C14_Witness ==
    /\ system_name = "FreeBSD"
    /\ pc = "ExitPersistFailed"
    /\ verified_key = "k1"
    /\ Len(calls) = 1
    /\ calls[1].message = "Unsupported OS: freebsd"
    /\ files = init_files


\* C15: once the primary credential is persisted the routing writes do not
\* end the run: a write of ANTHROPIC_MODEL, failed or not, is followed by the
\* write of ANTHROPIC_SMALL_FAST_MODEL, the last routing write, failed or
\* not, is followed by Done with the final instructions printed, and a run
\* that has reached the routing writes eventually reaches Done.
C15_RoutingFailuresNonFatal ==
    /\ [][ /\ (pc = "PersistModel" =>
                 /\ pc' = "PersistSmallModel"
                 /\ calls'[Len(calls')].var_name = "ANTHROPIC_MODEL")
           /\ (pc = "PersistSmallModel" =>
                 /\ pc' = "Done"
                 /\ calls'[Len(calls')].var_name = "ANTHROPIC_SMALL_FAST_MODEL"
                 /\ Len(calls') = 3)
           /\ (pc = "PersistBaseUrl" => pc' = "Done" /\ Len(calls') = 2)
         ]_vars
    /\ (pc \in {"PersistModel", "PersistSmallModel", "PersistBaseUrl"}
           ~> pc = "Done")

C15_Witness ==
    /\ pc = "Done"
    /\ vertex_config.useVertex
    /\ Len(calls) = 3
    /\ calls[1].success
    /\ calls[2].var_name = "ANTHROPIC_MODEL"
    /\ ~calls[2].success
    /\ calls[3].var_name = "ANTHROPIC_SMALL_FAST_MODEL"


\* C16: a call of verify_api_key raises nothing to its caller and makes at
\* most one urlopen call, and it returns False whenever urlopen raised
\* HTTPError (whatever the error body holds), raised URLError or timed out,
\* returned a status other than 200, or returned a body that does not decode.
C16_FailuresAreInvalid ==
    probe.fn = "verify_api_key" =>
        /\ ~probe.raised
        /\ probe.requests <= 1
        /\ ((\/ probe.resp.kind \in {"HTTPError", "URLError", "timeout"}
             \/ probe.resp.status # 200
             \/ probe.resp.body = Undecodable) => probe.result = FALSE)

C16_Witness ==
    /\ probe.fn = "verify_api_key"
    /\ probe.key = "k1"
    /\ probe.resp.kind = "HTTPError"
    /\ probe.resp.status = 401
    /\ probe.resp.error = "error_is_string"
    /\ probe.requests = 1
    /\ probe.result = FALSE
    /\ ~probe.raised


\* C17: a run in which alternate routing was chosen and the default models
\* were declined writes ANTHROPIC_MODEL with the entry for the primary model
\* (trimmed) when that entry is not empty and with its default otherwise, and
\* ANTHROPIC_SMALL_FAST_MODEL with the entry for the small model (trimmed)
\* when that entry is not empty and with its default otherwise, each
\* whatever the other entry was; a write the environment does not make fail
\* leaves its variable stored.
C17_IndependentOverrides ==
    (pc = "Done" /\ "Small/fast model" \in asked) =>
        /\ "Primary model" \in asked
        /\ Len(calls) = 3
        /\ calls[2].var_name = "ANTHROPIC_MODEL"
        /\ calls[2].value = IF typed_primary \in {"", " ", "\t"}
                            THEN "anthropic.claude-sonnet-4-5@20250929"
                            ELSE IF typed_primary = " m1 " THEN "m1"
                            ELSE typed_primary
        /\ calls[3].var_name = "ANTHROPIC_SMALL_FAST_MODEL"
        /\ calls[3].value = IF typed_small \in {"", " ", "\t"}
                            THEN "anthropic.claude-3-5-haiku@20241022"
                            ELSE IF typed_small = " m1 " THEN "m1"
                            ELSE typed_small
        /\ \A i \in 2..3 : ~WriteFailed(calls[i]) => Stored(calls[i])

C17_Witness ==
    /\ pc = "Done"
    /\ typed_primary = ""
    /\ typed_small = " m1 "
    /\ Len(calls) = 3
    /\ calls[2].value = DefaultPrimary
    /\ calls[2].report = "Added"
    /\ calls[3].value = "m1"
    /\ calls[3].report = "Added"


\* the profile file configures variable v
Configures(content, v) == Contains(content, "export " \o v \o "=")

\* the text this run has appended to profile file f
RunAppended(f) ==
    IF calls # <<>> /\ calls[1].rc_file = f
    THEN Suffix(calls[1].before, files[f])
    ELSE ""

\* C18 as stated: after any sequence of completed runs on the same machine,
\* whatever the routing choice of each, no profile file configures
\* ANTHROPIC_BASE_URL together with ANTHROPIC_MODEL or
\* ANTHROPIC_SMALL_FAST_MODEL.
C18_BranchesExclusiveInFile ==
    pc \in Terminal =>
        \A f \in RcFiles :
            ~(/\ Configures(files[f], "ANTHROPIC_BASE_URL")
              /\ (\/ Configures(files[f], "ANTHROPIC_MODEL")
                  \/ Configures(files[f], "ANTHROPIC_SMALL_FAST_MODEL")))

\* C18 amended: the two routing branches are mutually exclusive within a run:
\* the writer calls of one run never name ANTHROPIC_BASE_URL together with
\* ANTHROPIC_MODEL or ANTHROPIC_SMALL_FAST_MODEL, and neither does the text
\* the run appends to the profile file; what earlier runs appended stays in
\* the file, so runs with different routing choices leave both configured.
C18_BranchesExclusiveInRun ==
    /\ ~ \E i, j \in 1..Len(calls) :
            /\ calls[i].var_name = "ANTHROPIC_BASE_URL"
            /\ calls[j].var_name \in {"ANTHROPIC_MODEL", "ANTHROPIC_SMALL_FAST_MODEL"}
    /\ \A f \in RcFiles :
          /\ IsPrefix(init_files[f], files[f])
          /\ (calls # <<>> /\ calls[1].rc_file = f => IsPrefix(calls[1].before, files[f]))
          /\ ~(/\ Configures(RunAppended(f), "ANTHROPIC_BASE_URL")
               /\ (\/ Configures(RunAppended(f), "ANTHROPIC_MODEL")
                   \/ Configures(RunAppended(f), "ANTHROPIC_SMALL_FAST_MODEL")))
    /\ (pc = "Done" =>
          IF vertex_config.useVertex
          THEN Len(calls) = 3 /\ calls[2].var_name = "ANTHROPIC_MODEL"
                              /\ calls[3].var_name = "ANTHROPIC_SMALL_FAST_MODEL"
          ELSE Len(calls) = 2 /\ calls[2].var_name = "ANTHROPIC_BASE_URL")

C18_Witness ==
    /\ run = 2
    /\ pc = "Done"
    /\ vertex_config.useVertex
    /\ \E f \in RcFiles :
          /\ Configures(files[f], "ANTHROPIC_BASE_URL")
          /\ Configures(files[f], "ANTHROPIC_MODEL")
          /\ Configures(RunAppended(f), "ANTHROPIC_MODEL")
          /\ ~Configures(RunAppended(f), "ANTHROPIC_BASE_URL")


\* C19: on a POSIX system the follow-up message of every successful writer
\* call names the profile file get_shell_rc_file selected and the writer
\* appended to, and so does the "source" line of the final instructions.
C19_ReloadNamesWrittenFile ==
    /\ \A i \in 1..Len(calls) :
          (calls[i].rc_file \in RcFiles /\ calls[i].success) =>
              calls[i].message =
                  "Run 'source " \o calls[i].rc_file \o "' or restart terminal"
    /\ (pc = "Done" /\ calls[1].rc_file \in RcFiles =>
          reload_file = calls[1].rc_file)


\* C20: every writer call on a profile file leaves the content it found as a
\* prefix of the content it leaves, a call that reports "already configured"
\* or whose file operations fail leaves the content as it found it, and the
\* writer calls of one run name different variables, each one of
\* UNBOUND_API_KEY, ANTHROPIC_BASE_URL, ANTHROPIC_MODEL,
\* ANTHROPIC_SMALL_FAST_MODEL.
C20_AppendOnly ==
    /\ \A i \in 1..Len(calls) :
          calls[i].rc_file \in RcFiles =>
              /\ IsPrefix(calls[i].before, calls[i].after)
              /\ (calls[i].report = "already configured" \/ calls[i].io_raised =>
                     calls[i].after = calls[i].before)
    /\ \A i, j \in 1..Len(calls) :
          i # j => calls[i].var_name # calls[j].var_name
    /\ \A i \in 1..Len(calls) :
          calls[i].var_name \in {"UNBOUND_API_KEY", "ANTHROPIC_BASE_URL",
                                 "ANTHROPIC_MODEL", "ANTHROPIC_SMALL_FAST_MODEL"}

=============================================================================
